---- MODULE Spec2Model ----
(***************************************************************************)
(* Model of the hyperspectral transformer (src/transformer.py):            *)
(* perform_process and the functions of __internal__ it calls.             *)
(*                                                                         *)
(* Python strings whose characters the code inspects (timestamps, dates,   *)
(* file names) are sequences of one-character strings.  None is "None".    *)
(* numpy floats are exact rationals <<num, den>> in lowest terms, with     *)
(* <<1, 0>>, <<-1, 0>> and <<0, 0>> for inf, -inf and nan.  Integer data   *)
(* (log spectra, raw digital numbers, file coefficients) stay integers     *)
(* until the arithmetic that makes floats of them.                         *)
(***************************************************************************)
EXTENDS Integers, Sequences, FiniteSets, TLC

VARIABLES
    pc,               \* position in perform_process / apply_calibration, or in a single call
    call,             \* the arguments of the call under way (inputs, as read so far)
    ret,              \* what the call returned, or the exception that left it
    disk,             \* the files the run reads and writes
    raw_filename,     \* perform_process: the RAW file picked from the list
    camera,           \* apply_calibration: the four names line 261 unpacks
    img_dn,           \* apply_calibration: the raw cube, rows x cols x bands
    envlog_tot_time,  \* apply_calibration: the concatenated log times
    envlog_spectra,   \* apply_calibration: the stacked log spectra
    ind_closet_time,  \* apply_calibration: the matched index (0-based)
    mean_spectrum,    \* apply_calibration: the mean ambient spectrum
    rfl_data          \* apply_calibration: the reflectance, bands x rows x cols

vars == <<pc, call, ret, disk, raw_filename, camera, img_dn, envlog_tot_time,
          envlog_spectra, ind_closet_time, mean_spectrum, rfl_data>>

None == "None"

(***************************************************************************)
(* Strings                                                                 *)
(***************************************************************************)

\* Code points of the characters the inputs are made of (Python compares
\* strings by code point).
Ord(c) ==
    CASE c = " " -> 32 [] c = "-" -> 45 [] c = "." -> 46 [] c = "/" -> 47
      [] c = "0" -> 48 [] c = "1" -> 49 [] c = "2" -> 50 [] c = "3" -> 51
      [] c = "4" -> 52 [] c = "5" -> 53 [] c = "6" -> 54 [] c = "7" -> 55
      [] c = "8" -> 56 [] c = "9" -> 57 [] c = ":" -> 58 [] c = "T" -> 84
      [] c = "_" -> 95 [] OTHER -> 97

IsDigit(c) == c \in {"0", "1", "2", "3", "4", "5", "6", "7", "8", "9"}

DigitChar(d) ==
    CASE d = 0 -> "0" [] d = 1 -> "1" [] d = 2 -> "2" [] d = 3 -> "3" [] d = 4 -> "4"
      [] d = 5 -> "5" [] d = 6 -> "6" [] d = 7 -> "7" [] d = 8 -> "8" [] OTHER -> "9"

\* Python's s < t on strings: the first differing character decides, a
\* proper prefix is smaller.
RECURSIVE StrLess(_, _)
StrLess(s, t) ==
    IF t = <<>> THEN FALSE
    ELSE IF s = <<>> THEN TRUE
    ELSE IF Head(s) = Head(t) THEN StrLess(Tail(s), Tail(t))
    ELSE Ord(Head(s)) < Ord(Head(t))

StrLessEq(s, t) == s = t \/ StrLess(s, t)

\* s.endswith(suffix)
EndsWith(s, suffix) ==
    /\ Len(s) >= Len(suffix)
    /\ SubSeq(s, Len(s) - Len(suffix) + 1, Len(s)) = suffix

\* s.replace(old, new) for a one-character old and a new of length 0 or 1.
RECURSIVE Replace(_, _, _)
Replace(s, old, new) ==
    IF s = <<>> THEN <<>>
    ELSE (IF Head(s) = old THEN new ELSE <<Head(s)>>) \o Replace(Tail(s), old, new)

\* s.replace(old, new) for a string old: every occurrence, left to right,
\* none overlapping
RECURSIVE ReplaceString(_, _, _)
ReplaceString(s, old, new) ==
    IF Len(s) < Len(old) THEN s
    ELSE IF SubSeq(s, 1, Len(old)) = old
    THEN new \o ReplaceString(SubSeq(s, Len(old) + 1, Len(s)), old, new)
    ELSE <<Head(s)>> \o ReplaceString(Tail(s), old, new)

\* s.split(sep) for a one-character sep: the pieces between separators,
\* empty pieces included.
RECURSIVE SplitFrom(_, _, _)
SplitFrom(s, sep, piece) ==
    IF s = <<>> THEN <<piece>>
    ELSE IF Head(s) = sep THEN <<piece>> \o SplitFrom(Tail(s), sep, <<>>)
    ELSE SplitFrom(Tail(s), sep, Append(piece, Head(s)))

Split(s, sep) == SplitFrom(s, sep, <<>>)

\* int(s) for a string of decimal digits; int() raises ValueError on the
\* other strings the inputs here can give (empty, or holding a separator
\* or a letter).
RECURSIVE DigitsValue(_, _)
DigitsValue(s, acc) ==
    IF s = <<>> THEN acc
    ELSE DigitsValue(Tail(s), 10 * acc + (Ord(Head(s)) - 48))

IsDecimal(s) == s # <<>> /\ \A i \in 1..Len(s) : IsDigit(s[i])

\* The two-digit and four-digit decimal fields of a date or a time.
TwoDigits(n) == <<DigitChar(n \div 10), DigitChar(n % 10)>>
FourDigits(n) == TwoDigits(n \div 100) \o TwoDigits(n % 100)

(***************************************************************************)
(* Numbers                                                                 *)
(***************************************************************************)

\* A sequence with its values settled: TLC works a function constructor
\* out again at each use, and a sequence taken from it only once.
Array(a) == SubSeq(a, 1, Len(a))

RECURSIVE Gcd(_, _)
Gcd(a, b) == IF b = 0 THEN a ELSE Gcd(b, a % b)

Abs(x) == IF x < 0 THEN -x ELSE x

\* abs(a - b), as line 320 takes it
AbsDiff(a, b) == Abs(a - b)

Min(a, b) == IF a <= b THEN a ELSE b

\* The float n/d: <<num, den>> in lowest terms with den > 0; n/0 is inf,
\* -inf or nan (<<1, 0>>, <<-1, 0>>, <<0, 0>>), as numpy divides.
Rat(n, d) ==
    IF d = 0 THEN <<(IF n > 0 THEN 1 ELSE IF n < 0 THEN -1 ELSE 0), 0>>
    ELSE LET g == Gcd(Abs(n), Abs(d))
             s == IF d < 0 THEN -1 ELSE 1
         IN  <<(s * n) \div g, (s * d) \div g>>

ToRat(i) == <<i, 1>>

IsFinite(x) == x[2] # 0

RatMul(x, y) ==
    IF IsFinite(x) /\ IsFinite(y) THEN Rat(x[1] * y[1], x[2] * y[2])
    ELSE IF x[1] * y[1] = 0 THEN <<0, 0>>
    ELSE <<(IF x[1] * y[1] > 0 THEN 1 ELSE -1), 0>>

RatAdd(x, y) ==
    IF IsFinite(x) /\ IsFinite(y) THEN Rat(x[1] * y[2] + y[1] * x[2], x[2] * y[2])
    ELSE IF IsFinite(x) THEN y
    ELSE IF IsFinite(y) THEN x
    ELSE IF x = y THEN x ELSE <<0, 0>>

\* x / y on floats: a zero divisor gives inf, -inf or nan, never an exception
RatDiv(x, y) ==
    IF IsFinite(x) /\ IsFinite(y) THEN
        IF y[1] = 0 THEN Rat(x[1], 0)
        ELSE Rat(x[1] * y[2], x[2] * y[1])
    ELSE IF IsFinite(y) THEN (IF y[1] < 0 THEN <<-x[1], 0>> ELSE x)
    ELSE IF IsFinite(x) /\ y[1] # 0 THEN <<0, 1>>
    ELSE <<0, 0>>

(***************************************************************************)
(* Outcomes of a call: a value, or the exception that left it              *)
(***************************************************************************)

Ok(v) == [ok |-> TRUE, val |-> v]
Raise(e) == [ok |-> FALSE, exc |-> e]

(***************************************************************************)
(* get_needed_files, get_local_time, check_raw_file_size                   *)
(***************************************************************************)

RawSuffix == <<"_", "r", "a", "w">>

\* The last name of the list that ends in '_raw'; <<>> stands for None
\* (a name that ends in '_raw' is never empty).
RECURSIVE GetNeededFilesFrom(_, _)
GetNeededFilesFrom(source_files, raw_file) ==
    IF source_files = <<>> THEN raw_file
    ELSE GetNeededFilesFrom(Tail(source_files),
                            IF EndsWith(Head(source_files), RawSuffix)
                            THEN Head(source_files) ELSE raw_file)

GetNeededFiles(source_files) == GetNeededFilesFrom(source_files, <<>>)

GetLocalTime(timestamp) ==
    IF \E i \in 1..Len(timestamp) : timestamp[i] = "T"
    THEN LET time_only == Split(timestamp, "T")[2]
         IN  SubSeq(time_only, 1, Min(8, Len(time_only)))
    ELSE timestamp

\* Ok(None) when the size passes, Ok(a message) when it does not;
\* os.stat raises when the file is not on disk.
CheckRawFileSize(on_disk, raw_file_size, available_mem) ==
    LET reserve_memory == 5 * 1024 * 1024
    IN  IF ~on_disk THEN Raise("FileNotFoundError")
        ELSE IF available_mem <= raw_file_size
        THEN Ok("RAW file size is too large for available memory")
        ELSE IF available_mem - reserve_memory <= raw_file_size
        THEN Ok("RAW file size will consume available and reserved memory")
        ELSE Ok(None)

(***************************************************************************)
(* Environment logger files                                                *)
(*                                                                         *)
(* A log file on disk is held as [name, layout, stamp, n, start, flame,    *)
(* nir, base]: n records, 5 seconds apart from second-of-day `start`,      *)
(* laid out with the nested "spectrometers" object or the flat             *)
(* "spectrometer" one, with spectra of `flame` (FLAME-T or flat) and `nir` *)
(* (NIRQuest-512) values.  Readings is the list json.loads gives for it.   *)
(***************************************************************************)

\* "YYYY.MM.DD-HH:MM:SS", the logger's stamp, of second-of-day t
LoggerStamp(t) ==
    <<"2", "0", "1", "9", ".", "0", "3", ".", "0", "1", "-">>
        \o TwoDigits(t \div 3600) \o <<":">> \o TwoDigits((t \div 60) % 60)
        \o <<":">> \o TwoDigits(t % 60)

\* the same instant in ISO 8601, which the reader's token rule does not fit
IsoStamp(t) ==
    <<"2", "0", "1", "9", "-", "0", "3", "-", "0", "1", "T">>
        \o TwoDigits(t \div 3600) \o <<":">> \o TwoDigits((t \div 60) % 60)
        \o <<":">> \o TwoDigits(t % 60)

\* spectrum values: different from record to record and from band to band
FlameSpectrum(f, k) == Array([b \in 1..f.flame |-> f.base + k + (b % 2)])
NirSpectrum(f, k) == Array([b \in 1..f.nir |-> f.base + 2 * k + 1 + (b % 2)])

Reading(f, k) ==
    LET ts == IF f.stamp = "logger" THEN LoggerStamp(f.start + 5 * k)
              ELSE IsoStamp(f.start + 5 * k)
    IN  IF f.layout = "spectrometers"
        THEN [timestamp |-> ts,
              spectrometers |-> [FLAME_T |-> [spectrum |-> FlameSpectrum(f, k)],
                                 NIRQuest_512 |-> [spectrum |-> NirSpectrum(f, k)]]]
        ELSE [timestamp |-> ts,
              spectrometer |-> [spectrum |-> FlameSpectrum(f, k)]]

\* env_json["environment_sensor_readings"]; record idx of the code is Readings(f)[idx + 1]
Readings(f) == Array([i \in 1..f.n |-> Reading(f, i - 1)])

(***************************************************************************)
(* irradiance_time_extractor                                               *)
(***************************************************************************)

\* lines 120-122: the stamp's fourth token as an integer, or the exception
ParseLogTime(time_current) ==
    LET array_time ==
            Split(Replace(Replace(Replace(time_current, ".", <<" ">>), "-", <<" ">>),
                          ":", <<>>), " ")
    IN  IF Len(array_time) < 4 THEN Raise("IndexError")
        ELSE IF ~IsDecimal(array_time[4]) THEN Raise("ValueError")
        ELSE Ok(DigitsValue(array_time[4], 0))

\* lines 108-114: the width of the spectra matrix, from record 0
NumBands(camera_type, sensor_reading_json) ==
    IF "spectrometers" \in DOMAIN sensor_reading_json[1]
    THEN IF camera_type = "swir_new"
         THEN Len(sensor_reading_json[1].spectrometers.NIRQuest_512.spectrum)
         ELSE Len(sensor_reading_json[1].spectrometers.FLAME_T.spectrum)
    ELSE Len(sensor_reading_json[1].spectrometer.spectrum)

\* lines 126-132: the spectrum stored into row idx (idx is 0-based)
RowSpectrum(camera_type, sensor_reading_json, idx) ==
    IF "spectrometers" \in DOMAIN sensor_reading_json[idx + 1]
    THEN IF camera_type = "swir_new"
         THEN sensor_reading_json[1].spectrometers.NIRQuest_512.spectrum
         ELSE sensor_reading_json[idx + 1].spectrometers.FLAME_T.spectrum
    ELSE sensor_reading_json[idx + 1].spectrometer.spectrum

\* spectra[idx, :] = spectrum: the row takes the spectrum when the lengths
\* agree, a single value is spread over the row, and anything else raises
FitsRow(spectrum, num_bands) == Len(spectrum) = num_bands \/ Len(spectrum) = 1

StoreRow(spectrum, num_bands) ==
    IF Len(spectrum) = num_bands THEN spectrum
    ELSE Array([b \in 1..num_bands |-> spectrum[1]])

\* lines 118-134 for record idx: Ok([time, row]) or the exception raised
ReadRecord(camera_type, sensor_reading_json, num_bands, idx) ==
    LET time_current_r == ParseLogTime(sensor_reading_json[idx + 1].timestamp)
        spectrum == RowSpectrum(camera_type, sensor_reading_json, idx)
    IN  IF ~time_current_r.ok THEN time_current_r
        ELSE IF ~FitsRow(spectrum, num_bands) THEN Raise("ValueError")
        ELSE Ok([time |-> time_current_r.val, row |-> StoreRow(spectrum, num_bands)])

\* The whole function: Ok([times, spectra]) or the exception of the first
\* record that raises.  An empty list raises at sensor_reading_json[0].
IrradianceTimeExtractor(camera_type, sensor_reading_json) ==
    IF Len(sensor_reading_json) = 0 THEN Raise("IndexError")
    ELSE
    LET num_readings == Len(sensor_reading_json)
        num_bands == NumBands(camera_type, sensor_reading_json)
        records == Array([i \in 1..num_readings |->
                            ReadRecord(camera_type, sensor_reading_json, num_bands, i - 1)])
        bad == {i \in 1..num_readings : ~records[i].ok}
    IN  IF bad # {}
        THEN records[CHOOSE i \in bad : \A other \in bad : i <= other]
        ELSE Ok([times |-> Array([i \in 1..num_readings |-> records[i].val.time]),
                 spectra |-> Array([i \in 1..num_readings |-> records[i].val.row])])

(***************************************************************************)
(* update_netcdf                                                           *)
(*                                                                         *)
(* A netCDF file is [atts, dimensions, variables]: atts a function from    *)
(* attribute names to values, dimensions a sequence of [name, len,         *)
(* unlimited], variables a sequence (the file's order) of [name, datatype, *)
(* dimensions, fill_value, atts, data], fill_value being "default" when    *)
(* the variable was created without one.  The data of rfl_img is indexed   *)
(* [band][row][col].                                                       *)
(***************************************************************************)

NaN == <<0, 0>>

VarNames(file) == {file.variables[i].name : i \in 1..Len(file.variables)}

VarOf(file, name) ==
    file.variables[CHOOSE i \in 1..Len(file.variables) : file.variables[i].name = name]

\* line 156: the dimension created in the new file; an unlimited one is
\* created with no size (None)
CreateDimension(dimension) ==
    IF ~dimension.unlimited
    THEN [name |-> dimension.name, unlimited |-> FALSE, len |-> dimension.len]
    ELSE [name |-> dimension.name, unlimited |-> TRUE]

\* src[name].__dict__: the variable's attributes, its fill value among them
\* when it has one.  netCDF4 builds this dictionary afresh at each access.
VarDict(variable) ==
    IF variable.fill_value = "default" THEN variable.atts
    ELSE [a \in DOMAIN variable.atts \cup {"_FillValue"} |->
            IF a = "_FillValue" THEN variable.fill_value ELSE variable.atts[a]]

\* <<bands, rows, cols>> of a cube indexed [band][row][col]
Shape3(a) ==
    IF Len(a) = 0 THEN <<0, 0, 0>>
    ELSE IF Len(a[1]) = 0 THEN <<Len(a), 0, 0>>
    ELSE <<Len(a), Len(a[1]), Len(a[1][1])>>

\* lines 176-191 without the lines that write the sentinel
WriteRflImgNoSentinel(shape, rfl, camera_type) ==
    LET cutoff == IF camera_type = "vnir_old" THEN 679
                  ELSE IF camera_type = "vnir_middle" THEN 662
                  ELSE shape[1]
        head == Min(cutoff, shape[1])
    IN  IF Shape3(rfl) # <<head, shape[2], shape[3]>> THEN Raise("IndexError")
        ELSE Ok([b \in 1..shape[1] |->
                    IF b <= head THEN rfl[b]
                    ELSE [r \in 1..shape[2] |-> [c \in 1..shape[3] |-> ToRat(0)]]])

\* lines 176-191: the data of the new rfl_img, whose extent is that of the
\* template's; Raise when netCDF4 cannot fit rfl_data into the slice
WriteRflImg(shape, rfl, camera_type) ==
    LET cutoff == IF camera_type = "vnir_old" THEN 679
                  ELSE IF camera_type = "vnir_middle" THEN 662
                  ELSE shape[1]
        head == Min(cutoff, shape[1])
    IN  IF Shape3(rfl) # <<head, shape[2], shape[3]>> THEN Raise("IndexError")
        ELSE Ok([b \in 1..shape[1] |->
                    IF b <= head THEN rfl[b]
                    ELSE [r \in 1..shape[2] |-> [c \in 1..shape[3] |-> NaN]]])

\* lines 163-194 creating every variable with the default fill value
CopyVariableDefaultFill(variable, rfl, camera_type) ==
    LET var_dict == VarDict(variable)
        rest == [a \in DOMAIN var_dict \ {"_FillValue"} |-> var_dict[a]]
        data == IF variable.name # "rfl_img" THEN Ok(variable.data)
                ELSE WriteRflImg(Shape3(variable.data), rfl, camera_type)
    IN  IF ~data.ok THEN data
        ELSE Ok([name |-> variable.name,
                 datatype |-> variable.datatype,
                 dimensions |-> variable.dimensions,
                 fill_value |-> "default",
                 atts |-> rest,
                 data |-> data.val])

\* lines 163-194 for one variable of the template: the variable created in
\* the new file
CopyVariable(variable, rfl, camera_type) ==
    LET var_dict == VarDict(variable)
        has_fill == "_FillValue" \in DOMAIN var_dict
        \* line 167: del var_dict['_FillValue']
        rest == [a \in DOMAIN var_dict \ {"_FillValue"} |-> var_dict[a]]
        data == IF variable.name # "rfl_img" THEN Ok(variable.data)
                ELSE WriteRflImg(Shape3(variable.data), rfl, camera_type)
    IN  IF ~data.ok THEN data
        ELSE Ok([name |-> variable.name,
                 datatype |-> variable.datatype,
                 dimensions |-> variable.dimensions,
                 fill_value |-> IF has_fill THEN var_dict["_FillValue"] ELSE "default",
                 atts |-> rest,
                 data |-> data.val])

\* lines 159-194: the loop over the template's variables, from position i
\* on, appending to the variables made so far
RECURSIVE CopyVariables(_, _, _, _, _)
CopyVariables(src, i, done, rfl, camera_type) ==
    IF i > Len(src.variables) THEN Ok(done)
    ELSE IF src.variables[i].name = "Google_Map_View"
    THEN CopyVariables(src, i + 1, done, rfl, camera_type)
    ELSE LET one == CopyVariable(src.variables[i], rfl, camera_type)
         IN  IF ~one.ok THEN [ok |-> FALSE, exc |-> one.exc, val |-> done]
             ELSE CopyVariables(src, i + 1, Append(done, one.val), rfl, camera_type)

\* lines 196-199: a scalar f4 variable is created and nothing is written to
\* it (the assignment rebinds an entry of the Python dictionary)
AddRflImg(src, variables) ==
    IF "rfl_img" \notin VarNames(src)
    THEN Append(variables, [name |-> "rfl_img", datatype |-> "f4", dimensions |-> <<>>,
                            fill_value |-> "default", atts |-> [a \in {} |-> ""],
                            data |-> <<>>])
    ELSE variables

\* The new file: Ok(file), or the exception with the file as far as it got.
UpdateNetcdf(src, rfl, camera_type) ==
    LET atts == src.atts
        dimensions == [i \in 1..Len(src.dimensions) |-> CreateDimension(src.dimensions[i])]
        copied == CopyVariables(src, 1, <<>>, rfl, camera_type)
    IN  IF ~copied.ok
        THEN [ok |-> FALSE, exc |-> copied.exc,
              val |-> [atts |-> atts, dimensions |-> dimensions, variables |-> copied.val]]
        ELSE Ok([atts |-> atts, dimensions |-> dimensions,
                 variables |-> AddRflImg(src, copied.val)])

(***************************************************************************)
(* get_camera_info                                                         *)
(***************************************************************************)

Date_2018_08_18 == <<"2", "0", "1", "8", "-", "0", "8", "-", "1", "8">>
Date_2019_02_26 == <<"2", "0", "1", "9", "-", "0", "2", "-", "2", "6">>

\* get_camera_info with each bracket's lower bound exclusive
GetCameraInfoExclusive(sensor, data_date) ==
    IF sensor = "VNIR"
    THEN IF StrLessEq(data_date, Date_2018_08_18)
         THEN <<"vnir_old", 955, 1024, 540>>
         ELSE IF StrLess(Date_2018_08_18, data_date) /\ StrLessEq(data_date, Date_2019_02_26)
         THEN <<"vnir_middle", 939, 1024, 540>>
         ELSE <<"vnir_new", 939, 3648, 210>>
    ELSE IF StrLessEq(data_date, Date_2019_02_26)
         THEN <<"swir_old_middle", None, None, None>>
         ELSE <<"swir_new", 275, 512, 210>>

\* get_camera_info with a branch for 'SWIR' and nothing set for other names
GetCameraInfoKnownOnly(sensor, data_date) ==
    IF sensor = "VNIR"
    THEN IF StrLess(data_date, Date_2018_08_18)
         THEN <<"vnir_old", 955, 1024, 540>>
         ELSE IF StrLessEq(Date_2018_08_18, data_date) /\ StrLess(data_date, Date_2019_02_26)
         THEN <<"vnir_middle", 939, 1024, 540>>
         ELSE <<"vnir_new", 939, 3648, 210>>
    ELSE IF sensor = "SWIR"
    THEN IF StrLess(data_date, Date_2019_02_26)
         THEN <<"swir_old_middle", None, None, None>>
         ELSE <<"swir_new", 275, 512, 210>>
    ELSE <<None, None, None, None>>

\* <<camera_type, num_spectral_bands, num_bands_irradiance, image_scanning_time>>
GetCameraInfo(sensor, data_date) ==
    IF sensor = "VNIR"
    THEN IF StrLess(data_date, Date_2018_08_18)
         THEN <<"vnir_old", 955, 1024, 540>>
         ELSE IF StrLessEq(Date_2018_08_18, data_date) /\ StrLess(data_date, Date_2019_02_26)
         THEN <<"vnir_middle", 939, 1024, 540>>
         ELSE <<"vnir_new", 939, 3648, 210>>
    ELSE IF StrLess(data_date, Date_2019_02_26)
         THEN <<"swir_old_middle", None, None, None>>
         ELSE <<"swir_new", 275, 512, 210>>

(***************************************************************************)
(* apply_calibration                                                       *)
(***************************************************************************)

\* line 261: the four names the returned tuple is unpacked into, in the
\* order the statement lists them
UnpackCameraInfo(info) ==
    [camera_type |-> info[1],
     num_irradiance_bands |-> info[2],
     image_scanning_time |-> info[3],
     num_spectral_bands |-> info[4]]

EnvLogSuffix ==
    <<"e", "n", "v", "i", "r", "o", "n", "m", "e", "n", "t", "l", "o", "g", "g", "e", "r",
      ".", "j", "s", "o", "n">>

\* lines 295-305: the loop over os.listdir(environment_logging).  `width`
\* is the column count line 296 gives the empty matrix; vstack raises when
\* a file's spectra have another.
RECURSIVE ReadEnvLogs(_, _, _, _, _)
ReadEnvLogs(camera_type, width, listing, times, spectra) ==
    IF listing = <<>> THEN Ok([times |-> times, spectra |-> spectra])
    ELSE IF ~EndsWith(Head(listing).name, EnvLogSuffix)
    THEN ReadEnvLogs(camera_type, width, Tail(listing), times, spectra)
    ELSE LET one == IrradianceTimeExtractor(camera_type, Readings(Head(listing)))
         IN  IF ~one.ok THEN one
             ELSE IF Len(one.val.spectra[1]) # width THEN Raise("ValueError")
             ELSE ReadEnvLogs(camera_type, width, Tail(listing),
                              times \o one.val.times, spectra \o one.val.spectra)

\* line 313: int(get_local_time(timestamp).replace(":", ""))
ImageTime(timestamp) ==
    LET digits == Replace(GetLocalTime(timestamp), ":", <<>>)
    IN  IF ~IsDecimal(digits) THEN Raise("ValueError") ELSE Ok(DigitsValue(digits, 0))

\* np.argmin: the 0-based index of the first smallest value; it raises on
\* an empty array
ArgMinOrZero(a) ==
    IF a = <<>> THEN Ok(0)
    ELSE Ok((CHOOSE i \in 1..Len(a) :
                /\ \A j \in 1..Len(a) : a[i] <= a[j]
                /\ \A j \in 1..(i - 1) : a[j] # a[i]) - 1)

ArgMinLast(a) ==
    IF a = <<>> THEN Raise("ValueError")
    ELSE Ok((CHOOSE i \in 1..Len(a) :
                /\ \A j \in 1..Len(a) : a[i] <= a[j]
                /\ \A j \in (i + 1)..Len(a) : a[j] # a[i]) - 1)

ArgMin(a) ==
    IF a = <<>> THEN Raise("ValueError")
    ELSE Ok((CHOOSE i \in 1..Len(a) :
                /\ \A j \in 1..Len(a) : a[i] <= a[j]
                /\ \A j \in 1..(i - 1) : a[j] # a[i]) - 1)

\* lines 318-321
ClosestTimeIndex(image_time, times) ==
    ArgMin([k \in 1..Len(times) |-> AbsDiff(image_time, times[k])])

RECURSIVE ColumnSum(_, _, _, _)
ColumnSum(matrix, b, first, last) ==
    IF first > last THEN 0
    ELSE matrix[first][b] + ColumnSum(matrix, b, first + 1, last)

\* np.mean(matrix[start:stop, :], axis=0) for 0-based start <= Len(matrix):
\* the slice stops at the last row, and the mean of no rows is nan
MeanRows(matrix, width, start, stop) ==
    LET first == start + 1
        last == Min(stop, Len(matrix))
    IN  [b \in 1..width |->
            IF last < first THEN NaN
            ELSE Rat(ColumnSum(matrix, b, first, last), last - first + 1)]

\* int(x / 5)
IntDiv5(x) == x \div 5

\* line 309
NumIrradianceRecord(image_scanning_time) == IntDiv5(image_scanning_time)

\* line 322
MeanSpectrum(spectra, width, ind, num_irridiance_record) ==
    MeanRows(spectra, width, ind, ind + num_irridiance_record - 1)

(***************************************************************************)
(* Calibration files: best_matched_index.npy, gain_coeff.npy and           *)
(* bias_coeff.npy of a camera type, one-dimensional arrays                 *)
(***************************************************************************)

\* numpy's rule for the length of an element-wise result; 0 when the two
\* lengths cannot be broadcast and the operation raises ValueError
BroadcastLen(m, n) ==
    IF m = n THEN m ELSE IF m = 1 THEN n ELSE IF n = 1 THEN m ELSE 0

\* a one-dimensional array as numpy spreads it over a result of n values:
\* itself, or its single value n times
Spread(a, n) == IF Len(a) = n THEN a ELSE Array([j \in 1..n |-> a[1]])

\* np.resize(a, (1, n)): a repeated, or cut, to n values
Resize(a, n) == LET len == Len(a) IN Array([j \in 1..n |-> a[((j - 1) % len) + 1]])

\* lines 327-329: the mean spectrum at the matched indices (0-based, as
\* stored), resized to num_irradiance_bands values
TestIrridanceRe(mean, best_matched_index, num_irradiance_bands) ==
    LET width == Len(mean)
    IN  IF \E j \in 1..Len(best_matched_index) : best_matched_index[j] >= width
        THEN Raise("IndexError")
        ELSE IF Len(best_matched_index) = 0
        THEN Ok(Array([j \in 1..num_irradiance_bands |-> ToRat(0)]))
        ELSE Ok(Resize(Array([j \in 1..Len(best_matched_index) |->
                                 mean[best_matched_index[j] + 1]]),
                       num_irradiance_bands))

\* lines 336-341: the legacy cameras keep the first 679 or 662 bands
LegacyCutoff(camera_type, n) ==
    IF camera_type = "vnir_old" THEN Min(679, n)
    ELSE IF camera_type = "vnir_middle" THEN Min(662, n)
    ELSE n

\* line 343: (loaded_gain * test_irridance_re) + loaded_bias
Irrad2DnBiasFirst(loaded_gain, test_irridance_re, loaded_bias) ==
    LET n1 == BroadcastLen(Len(loaded_gain), Len(test_irridance_re))
        n2 == BroadcastLen(n1, Len(loaded_bias))
    IN  IF n1 = 0 \/ n2 = 0 THEN Raise("ValueError")
        ELSE LET gain == Spread(loaded_gain, n2)
                 irr == Spread(test_irridance_re, n2)
                 bias == Spread(loaded_bias, n2)
             IN  Ok(Array([j \in 1..n2 |->
                        RatMul(ToRat(gain[j]), RatAdd(irr[j], ToRat(bias[j])))]))

Irrad2Dn(loaded_gain, test_irridance_re, loaded_bias) ==
    LET n1 == BroadcastLen(Len(loaded_gain), Len(test_irridance_re))
        n2 == BroadcastLen(n1, Len(loaded_bias))
    IN  IF n1 = 0 \/ n2 = 0 THEN Raise("ValueError")
        ELSE LET gain == Spread(loaded_gain, n2)
                 irr == Spread(test_irridance_re, n2)
                 bias == Spread(loaded_bias, n2)
             IN  Ok(Array([j \in 1..n2 |->
                        RatAdd(RatMul(ToRat(gain[j]), irr[j]), ToRat(bias[j]))]))

\* np.rollaxis(a, 2, 0) of a cube indexed [row][col][band]: indexed
\* [band][row][col]
RollAxis(a, nbands) ==
    Array([b \in 1..nbands |->
             Array([r \in 1..Len(a) |-> Array([c \in 1..Len(a[r]) |-> a[r][c][b]])])])

\* lines 338 and 341: img_dn[:, :, 0:cutoff]
CutBands(dn, cutoff) ==
    Array([r \in 1..Len(dn) |->
             Array([c \in 1..Len(dn[r]) |-> SubSeq(dn[r][c], 1, Min(cutoff, Len(dn[r][c])))])])

\* line 350: img_dn / irrad2dn, for a cube indexed [row][col][band]
Divide(dn, irrad2dn) ==
    LET nbands == BroadcastLen(Len(dn[1][1]), Len(irrad2dn))
    IN  IF nbands = 0 THEN Raise("ValueError")
        ELSE LET by == Spread(irrad2dn, nbands)
             IN  Ok(Array([r \in 1..Len(dn) |->
                      Array([c \in 1..Len(dn[r]) |->
                        LET pixel == Spread(dn[r][c], nbands)
                        IN  Array([b \in 1..nbands |-> RatDiv(ToRat(pixel[b]), by[b])])])]))

\* lines 327-351 together
ComputeReflectance(cam, mean, dn, coeff) ==
    LET re == TestIrridanceRe(mean, coeff.best_matched_index, cam.num_irradiance_bands)
    IN  IF ~re.ok THEN re
        ELSE
        LET legacy == cam.camera_type \in {"vnir_old", "vnir_middle"}
            cut == IF legacy
                   THEN SubSeq(re.val, 1, LegacyCutoff(cam.camera_type, Len(re.val)))
                   ELSE re.val
            dn_cut == IF legacy
                      THEN CutBands(dn, LegacyCutoff(cam.camera_type, Len(dn[1][1])))
                      ELSE dn
            irrad2dn == Irrad2Dn(coeff.gain, cut, coeff.bias)
        IN  IF ~irrad2dn.ok THEN irrad2dn
            ELSE LET rfl == Divide(dn_cut, irrad2dn.val)
                 IN  IF ~rfl.ok THEN rfl
                     ELSE Ok(RollAxis(rfl.val, Len(rfl.val[1][1])))

(***************************************************************************)
(* Inputs: what a run reads, each drawn from a small set where the code    *)
(* reads it                                                                *)
(***************************************************************************)

NumRecords == 46     \* records of the long log file
FewRecords == 2      \* records of a short log file
NumRows == 1         \* rows of the raw cube
NumCols == 2         \* columns of the raw cube
FewBands == 3        \* bands of a cube, or of calibration arrays, smaller than any camera's

RawName == <<"s">> \o RawSuffix
HdrName == RawName \o <<".", "h", "d", "r">>
FileLists == {<<HdrName>>, <<RawName, HdrName>>}

\* transformer.args.environment_logger: not given, no folder, a folder
EnvironmentLoggers == {None, "/missing", "/envlog"}

\* sizes around the 5 MiB reserve of check_raw_file_size
RawFileSize == 1024
AvailableMems == {RawFileSize, RawFileSize + 5 * 1024 * 1024, RawFileSize + 5 * 1024 * 1024 + 1}

Time_11_59_58 == 11 * 3600 + 59 * 60 + 58
Time_12_00_00 == 12 * 3600
LogStart == 11 * 3600 + 59 * 60 + 50

HhMmSs(t) ==
    TwoDigits(t \div 3600) \o <<":">> \o TwoDigits((t \div 60) % 60) \o <<":">>
        \o TwoDigits(t % 60)

\* "YYYY-MM-DD"
DateString(y, m, d) == FourDigits(y) \o <<"-">> \o TwoDigits(m) \o <<"-">> \o TwoDigits(d)

\* check_md['timestamp'], ISO 8601 with a zone
IsoTimestamp(date, t) == date \o <<"T">> \o HhMmSs(t) \o <<"-", "0", "7", ":", "0", "0">>

Timestamps ==
    {IsoTimestamp(DateString(2018, 8, 17), Time_12_00_00),
     IsoTimestamp(DateString(2018, 8, 18), Time_12_00_00),
     IsoTimestamp(DateString(2019, 2, 26), Time_12_00_00),
     IsoTimestamp(DateString(2019, 2, 26), Time_11_59_58),
     \* a request stamp with no time part
     DateString(2019, 2, 26)}

\* --date_override: none (<<>>), or a date written with slashes
DateOverrides == {<<>>, <<"2", "0", "1", "9", "/", "0", "2", "/", "2", "5">>}

Sensors == {"VNIR", "SWIR"}

LogFile(name, layout, stamp, n, flame) ==
    [name |-> name \o <<"_">> \o EnvLogSuffix, layout |-> layout, stamp |-> stamp,
     n |-> n, start |-> LogStart, flame |-> flame, nir |-> 512, base |-> 10]

NotesFile == [name |-> <<"n", "o", "t", "e", "s", ".", "t", "x", "t">>]

\* os.listdir(environment_logging): the folder's entries in the order the
\* system lists them
Listings ==
    {<<>>, <<NotesFile>>,
     <<LogFile(<<"a">>, "spectrometers", "iso", FewRecords, 1024)>>,
     <<LogFile(<<"a">>, "spectrometer", "logger", NumRecords, 512)>>}
    \cup {<<LogFile(<<"a">>, "spectrometers", "logger", NumRecords, w)>> : w \in {1024, 3648}}
    \cup {<<LogFile(<<"b">>, "spectrometers", "logger", FewRecords, w), NotesFile,
            LogFile(<<"a">>, "spectrometers", "logger", FewRecords, w)>> : w \in {1024, 3648}}

\* the raw cube envi.open maps: digital numbers that differ by row, column
\* and band
RawCube(bands) ==
    Array([r \in 1..NumRows |-> Array([c \in 1..NumCols |->
        Array([b \in 1..bands |-> 4 + r + 2 * c + (b % 3)])])])

\* the three .npy files of a camera type: n coefficients each
CalibrationFiles(n, gain, bias, width) ==
    [best_matched_index |-> Array([j \in 1..n |-> (3 * (j - 1)) % width]),
     gain |-> Array([j \in 1..n |-> gain * (1 + (j % 2))]),
     bias |-> Array([j \in 1..n |-> bias])]

GainBias == {<<1, 0>>, <<2, 1>>, <<0, 0>>}

\* the file the workflow wrote: global attributes, dimensions (one of them
\* unlimited), and variables, with or without rfl_img
Template(bands, with_rfl) ==
    LET rfl == [name |-> "rfl_img", datatype |-> "f4",
                dimensions |-> <<"wavelength", "y", "x">>,
                fill_value |-> "-9999", atts |-> [a \in {"long_name"} |-> "reflectance"],
                data |-> [b \in 1..bands |-> [r \in 1..NumRows |-> [c \in 1..NumCols |->
                            ToRat(-1)]]]]
        gmv == [name |-> "Google_Map_View", datatype |-> "S1", dimensions |-> <<>>,
                fill_value |-> "default", atts |-> [a \in {"usage"} |-> "copy and paste"],
                data |-> <<0>>]
        wavelength == [name |-> "wavelength", datatype |-> "f8",
                       dimensions |-> <<"wavelength">>,
                       fill_value |-> "default",
                       atts |-> [a \in {"units", "long_name"} |->
                                    IF a = "units" THEN "meter" ELSE "wavelength"],
                       data |-> [b \in 1..bands |-> 400 + b]]
        frametime == [name |-> "frametime", datatype |-> "f8", dimensions |-> <<"time">>,
                      fill_value |-> "NaNf", atts |-> [a \in {} |-> ""],
                      data |-> [r \in 1..NumRows |-> 50 + r]]
    IN  [atts |-> [a \in {"title", "history"} |->
                     IF a = "title" THEN "hyperspectral" ELSE "workflow"],
         dimensions |-> <<[name |-> "wavelength", len |-> bands, unlimited |-> FALSE],
                          [name |-> "y", len |-> NumRows, unlimited |-> FALSE],
                          [name |-> "x", len |-> NumCols, unlimited |-> FALSE],
                          [name |-> "time", len |-> NumRows, unlimited |-> TRUE]>>,
         variables |-> IF with_rfl THEN <<gmv, rfl, wavelength, frametime>>
                       ELSE <<frametime, gmv, wavelength>>]

\* the band count of the cube each camera type records
SpectralBandsOf(camera_type) ==
    IF camera_type = "vnir_old" THEN 955
    ELSE IF camera_type \in {"vnir_middle", "vnir_new"} THEN 939
    ELSE 275

(***************************************************************************)
(* perform_process, and apply_calibration within it                        *)
(***************************************************************************)

NoFile == <<>>

Init ==
    /\ pc = "get_needed_files"
    /\ call = [fn |-> "perform_process"]
    /\ ret = [kind |-> "none"]
    /\ disk = [listing |-> NoFile, raw_bands |-> 0, calibration |-> NoFile,
               template |-> NoFile, newrfl |-> NoFile]
    /\ raw_filename = <<>>
    /\ camera = [camera_type |-> None]
    /\ img_dn = <<>>
    /\ envlog_tot_time = <<>>
    /\ envlog_spectra = <<>>
    /\ ind_closet_time = 0
    /\ mean_spectrum = <<>>
    /\ rfl_data = <<>>

locals == <<raw_filename, camera, img_dn, envlog_tot_time, envlog_spectra,
            ind_closet_time, mean_spectrum, rfl_data>>

\* perform_process returns {'code': code, 'error': error}
Return(code, error) ==
    /\ pc' = "done"
    /\ ret' = [kind |-> "return", code |-> code, error |-> error]

\* perform_process returns {'code': 0}
ReturnSuccess ==
    /\ pc' = "done"
    /\ ret' = [kind |-> "return", code |-> 0]

\* an exception raised outside the try of lines 426-432 leaves perform_process
Escape(exc) ==
    /\ pc' = "done"
    /\ ret' = [kind |-> "raise", exc |-> exc]

\* lines 429-432: an exception of apply_calibration becomes code -1004
Caught(exc) == Return(-1004, exc)

\* lines 395-397
GetNeededFilesStep ==
    /\ pc = "get_needed_files"
    /\ \E list_files \in FileLists :
        /\ call' = call @@ [list_files |-> list_files]
        /\ raw_filename' = GetNeededFiles(list_files)
        /\ IF raw_filename' = <<>>
           THEN Return(-1000, "A RAW file was not found in the provided list")
           ELSE pc' = "check_environment_logger" /\ UNCHANGED ret
    /\ UNCHANGED <<disk, camera, img_dn, envlog_tot_time, envlog_spectra,
                   ind_closet_time, mean_spectrum, rfl_data>>

\* lines 398-399: os.path.isdir raises TypeError when given None
CheckEnvironmentLogger ==
    /\ pc = "check_environment_logger"
    /\ \E environment_logger \in EnvironmentLoggers :
        /\ call' = call @@ [environment_logger |-> environment_logger]
        /\ IF environment_logger = None THEN Escape("TypeError")
           ELSE IF environment_logger # "/envlog"
           THEN Return(-1001, "The environmental logger folder was not found")
           ELSE pc' = "check_raw_file_size" /\ UNCHANGED ret
    /\ UNCHANGED <<disk, locals>>

\* lines 400-403
CheckMemory ==
    /\ pc = "check_raw_file_size"
    /\ \E skip_memory_check \in BOOLEAN :
        /\ IF skip_memory_check THEN pc' = "workflow" /\ UNCHANGED ret
           ELSE \E on_disk \in BOOLEAN, available_mem \in AvailableMems :
                   LET error_msg == CheckRawFileSize(on_disk, RawFileSize, available_mem)
                   IN  IF ~error_msg.ok THEN Escape(error_msg.exc)
                       ELSE IF error_msg.val # None
                       THEN Return(-1002, error_msg.val)
                       ELSE pc' = "workflow" /\ UNCHANGED ret
    /\ UNCHANGED <<call, disk, locals>>

\* lines 418-420: subprocess.call raises when bash cannot be started; its
\* return code is logged and not looked at
RunWorkflow ==
    /\ pc = "workflow"
    /\ \E launched \in BOOLEAN :
        IF ~launched THEN Escape("FileNotFoundError")
        ELSE pc' = "calibrate" /\ UNCHANGED ret
    /\ UNCHANGED <<call, disk, locals>>

\* lines 423-424
DataDate(date_override, timestamp) ==
    LET data_date == IF date_override # <<>> THEN date_override
                     ELSE SubSeq(timestamp, 1, Min(10, Len(timestamp)))
    IN  Replace(Replace(data_date, "/", <<"-">>), "_", <<"-">>)

\* lines 423-428 and 261: the arguments of apply_calibration, and the camera
BeginCalibration ==
    /\ pc = "calibrate"
    /\ \E sensor \in Sensors, date_override \in DateOverrides, timestamp \in Timestamps :
        /\ call' = call @@ [sensor |-> sensor, date_override |-> date_override,
                            timestamp |-> timestamp,
                            data_date |-> DataDate(date_override, timestamp)]
        /\ camera' = UnpackCameraInfo(GetCameraInfo(sensor, DataDate(date_override, timestamp)))
    /\ pc' = "load_raw"
    /\ UNCHANGED <<ret, disk, raw_filename, img_dn, envlog_tot_time, envlog_spectra,
                   ind_closet_time, mean_spectrum, rfl_data>>

\* lines 268-286: the header must exist; the old SWIR cameras go straight
\* to update_netcdf with the raw cube, band axis first
LoadRaw ==
    /\ pc = "load_raw"
    /\ \E hdr_exists \in BOOLEAN, bands \in {FewBands, SpectralBandsOf(camera.camera_type)} :
        IF ~hdr_exists
        THEN Caught("RuntimeError") /\ UNCHANGED <<disk, img_dn, rfl_data>>
        ELSE /\ disk' = [disk EXCEPT !.raw_bands = bands]
             /\ UNCHANGED ret
             /\ IF camera.camera_type = "swir_old_middle"
                THEN /\ rfl_data' = RollAxis(RawCube(bands), bands)
                     /\ img_dn' = RawCube(bands)
                     /\ pc' = "update_netcdf"
                ELSE /\ img_dn' = RawCube(bands)
                     /\ pc' = "read_envlog"
                     /\ UNCHANGED rfl_data
    /\ UNCHANGED <<call, raw_filename, camera, envlog_tot_time, envlog_spectra,
                   ind_closet_time, mean_spectrum>>

\* lines 295-306
ReadEnvLogFiles ==
    /\ pc = "read_envlog"
    /\ \E listing \in Listings :
        LET read == ReadEnvLogs(camera.camera_type, camera.image_scanning_time,
                                listing, <<>>, <<>>)
        IN  /\ disk' = [disk EXCEPT !.listing = <<listing>>]
            /\ IF ~read.ok
               THEN Caught(read.exc) /\ UNCHANGED <<envlog_tot_time, envlog_spectra>>
               ELSE /\ envlog_tot_time' = read.val.times
                    /\ envlog_spectra' = read.val.spectra
                    /\ pc' = "match"
                    /\ UNCHANGED ret
    /\ UNCHANGED <<call, raw_filename, camera, img_dn, ind_closet_time, mean_spectrum,
                   rfl_data>>

\* lines 309-324
MatchTime ==
    /\ pc = "match"
    /\ LET num_irridiance_record == NumIrradianceRecord(camera.image_scanning_time)
           image_time == ImageTime(call.timestamp)
           closest == IF image_time.ok
                      THEN ClosestTimeIndex(image_time.val, envlog_tot_time)
                      ELSE image_time
       IN  IF ~closest.ok
           THEN Caught(closest.exc) /\ UNCHANGED <<ind_closet_time, mean_spectrum,
                                                   envlog_spectra>>
           ELSE /\ ind_closet_time' = closest.val
                /\ mean_spectrum' = MeanSpectrum(envlog_spectra, camera.image_scanning_time,
                                                 closest.val, num_irridiance_record)
                /\ envlog_spectra' = <<>>
                /\ pc' = "reflectance"
                /\ UNCHANGED ret
    /\ UNCHANGED <<call, disk, raw_filename, camera, img_dn, envlog_tot_time, rfl_data>>

\* lines 327-355: np.load raises when a calibration file is missing
ComputeReflectanceStep ==
    /\ pc = "reflectance"
    /\ \E present \in BOOLEAN, gb \in GainBias,
          n \in {FewBands, LegacyCutoff(camera.camera_type,
                                        SpectralBandsOf(camera.camera_type))} :
        IF ~present
        THEN Caught("FileNotFoundError") /\ UNCHANGED <<disk, rfl_data, mean_spectrum, img_dn>>
        ELSE LET coeff == CalibrationFiles(n, gb[1], gb[2], Len(mean_spectrum))
                 rfl == ComputeReflectance(camera, mean_spectrum, img_dn, coeff)
             IN  /\ disk' = [disk EXCEPT !.calibration = <<coeff>>]
                 /\ IF ~rfl.ok
                    THEN Caught(rfl.exc) /\ UNCHANGED <<rfl_data, mean_spectrum, img_dn>>
                    ELSE /\ rfl_data' = rfl.val
                         /\ mean_spectrum' = <<>>
                         /\ img_dn' = <<>>
                         /\ pc' = "update_netcdf"
                         /\ UNCHANGED ret
    /\ UNCHANGED <<call, raw_filename, camera, envlog_tot_time, envlog_spectra,
                   ind_closet_time>>

\* lines 282-286 and 367-370: update_netcdf on the file the workflow left
\* at out_filename (none when the workflow failed); then the arrays are
\* released and perform_process returns success
RewriteNetcdf ==
    /\ pc = "update_netcdf"
    /\ \E present \in BOOLEAN, with_rfl \in BOOLEAN :
        IF ~present
        THEN Caught("FileNotFoundError") /\ UNCHANGED <<disk, img_dn, rfl_data>>
        ELSE LET src == Template(disk.raw_bands, with_rfl)
                 new == UpdateNetcdf(src, rfl_data, camera.camera_type)
             IN  /\ disk' = [disk EXCEPT !.template = <<src>>, !.newrfl = <<new.val>>]
                 /\ IF new.ok
                    THEN ReturnSuccess /\ img_dn' = <<>> /\ rfl_data' = <<>>
                    ELSE Caught(new.exc) /\ UNCHANGED <<img_dn, rfl_data>>
    /\ UNCHANGED <<call, raw_filename, camera, envlog_tot_time, envlog_spectra,
                   ind_closet_time, mean_spectrum>>

Next ==
    \/ GetNeededFilesStep
    \/ CheckEnvironmentLogger
    \/ CheckMemory
    \/ RunWorkflow
    \/ BeginCalibration
    \/ LoadRaw
    \/ ReadEnvLogFiles
    \/ MatchTime
    \/ ComputeReflectanceStep
    \/ RewriteNetcdf

Spec == Init /\ [][Next]_vars

(***************************************************************************)
(* get_camera_info alone: one call for each sensor and calendar date       *)
(***************************************************************************)

FirstYear == 2017
LastYear == 2020

DaysIn(y, m) ==
    IF m = 2 THEN (IF y % 4 = 0 /\ (y % 100 # 0 \/ y % 400 = 0) THEN 29 ELSE 28)
    ELSE IF m \in {4, 6, 9, 11} THEN 30 ELSE 31

CalendarDates ==
    UNION {{DateString(y, m, d) : d \in 1..DaysIn(y, m)} :
              y \in FirstYear..LastYear, m \in 1..12}

\* the two sensors the command line admits, and names it does not
SensorNames == {"VNIR", "SWIR", "vnir", "NIR"}

Idle ==
    /\ disk = [listing |-> NoFile, raw_bands |-> 0, calibration |-> NoFile,
               template |-> NoFile, newrfl |-> NoFile]
    /\ raw_filename = <<>>
    /\ camera = [camera_type |-> None]
    /\ img_dn = <<>>
    /\ envlog_tot_time = <<>>
    /\ envlog_spectra = <<>>
    /\ ind_closet_time = 0
    /\ mean_spectrum = <<>>
    /\ rfl_data = <<>>

InitCameraInfo ==
    /\ pc = "call"
    /\ \E sensor \in SensorNames, data_date \in CalendarDates :
        call = [fn |-> "get_camera_info", sensor |-> sensor, data_date |-> data_date]
    /\ ret = [kind |-> "none"]
    /\ Idle

CallGetCameraInfo ==
    /\ pc = "call"
    /\ call.fn = "get_camera_info"
    /\ pc' = "done"
    /\ ret' = [kind |-> "return", val |-> GetCameraInfo(call.sensor, call.data_date)]
    /\ UNCHANGED <<call, disk, locals>>

SpecCameraInfo == InitCameraInfo /\ [][CallGetCameraInfo]_vars

(***************************************************************************)
(* irradiance_time_extractor alone: one call for each camera type and log  *)
(* file                                                                    *)
(***************************************************************************)

MaxReadings == 3     \* records of a log file, at most
MaxWidth == 3        \* values of a spectrum, at most

CameraTypes == {"vnir_old", "vnir_middle", "vnir_new", "swir_old_middle", "swir_new"}

LogFiles ==
    {[name |-> <<"a", "_">> \o EnvLogSuffix, layout |-> layout, stamp |-> stamp, n |-> n,
      start |-> LogStart, flame |-> flame, nir |-> MaxWidth, base |-> 10] :
        layout \in {"spectrometers", "spectrometer"}, stamp \in {"logger", "iso"},
        n \in 0..MaxReadings, flame \in (MaxWidth - 1)..MaxWidth}

InitExtractor ==
    /\ pc = "call"
    /\ \E camera_type \in CameraTypes, envlog_file \in LogFiles :
        call = [fn |-> "irradiance_time_extractor", camera_type |-> camera_type,
                envlog_file |-> envlog_file]
    /\ ret = [kind |-> "none"]
    /\ Idle

CallIrradianceTimeExtractor ==
    /\ pc = "call"
    /\ call.fn = "irradiance_time_extractor"
    /\ pc' = "done"
    /\ LET out == IrradianceTimeExtractor(call.camera_type, Readings(call.envlog_file))
       IN  ret' = IF out.ok THEN [kind |-> "return", val |-> out.val]
                  ELSE [kind |-> "raise", exc |-> out.exc]
    /\ UNCHANGED <<call, disk, locals>>

SpecExtractor == InitExtractor /\ [][CallIrradianceTimeExtractor]_vars

(***************************************************************************)
(* update_netcdf alone: one call for each template, reflectance cube and   *)
(* camera type.  The template is on disk under input_filename before the   *)
(* call; the new file is written under output_filename.                    *)
(***************************************************************************)

NcSuffix == <<".", "n", "c">>
NewRflSuffix == <<"_", "n", "e", "w", "r", "f", "l", ".", "n", "c">>

\* out_filename of perform_process (line 407): a base name and '.nc'
InputFilenames == {<<"s">> \o NcSuffix, <<"d">> \o NcSuffix \o <<"/", "s">> \o NcSuffix}

\* a reflectance cube indexed [band][row][col], of values that differ by
\* band, row and column
Reflectance(bands) ==
    Array([b \in 1..bands |-> Array([r \in 1..NumRows |-> Array([c \in 1..NumCols |->
        Rat(1 + (b % 5) + r, 1 + c)])])])

InitNetcdf ==
    /\ pc = "call"
    /\ \E camera_type \in CameraTypes, input_filename \in InputFilenames,
          with_rfl \in BOOLEAN, few_template \in BOOLEAN, few_rfl \in BOOLEAN :
        LET bands == IF few_template THEN FewBands ELSE SpectralBandsOf(camera_type)
            given == IF few_rfl THEN FewBands ELSE LegacyCutoff(camera_type, bands)
        IN  /\ call = [fn |-> "update_netcdf", input_filename |-> input_filename,
                       camera_type |-> camera_type]
            /\ disk = [listing |-> NoFile, raw_bands |-> bands, calibration |-> NoFile,
                       template |-> <<Template(bands, with_rfl)>>, newrfl |-> NoFile]
            /\ rfl_data = Reflectance(given)
    /\ ret = [kind |-> "none"]
    /\ raw_filename = <<>>
    /\ camera = [camera_type |-> None]
    /\ img_dn = <<>>
    /\ envlog_tot_time = <<>>
    /\ envlog_spectra = <<>>
    /\ ind_closet_time = 0
    /\ mean_spectrum = <<>>

\* lines 148-199: the file opened with "w" is the one named output_filename
CallUpdateNetcdf ==
    /\ pc = "call"
    /\ call.fn = "update_netcdf"
    /\ pc' = "done"
    /\ LET output_filename == ReplaceString(call.input_filename, NcSuffix, NewRflSuffix)
           new == UpdateNetcdf(disk.template[1], rfl_data, call.camera_type)
       IN  /\ disk' = IF output_filename = call.input_filename
                      THEN [disk EXCEPT !.template = <<new.val>>]
                      ELSE [disk EXCEPT !.newrfl = <<new.val>>]
           /\ ret' = IF new.ok THEN [kind |-> "return", val |-> None]
                     ELSE [kind |-> "raise", exc |-> new.exc]
    /\ UNCHANGED <<call, locals>>

SpecNetcdf == InitNetcdf /\ [][CallUpdateNetcdf]_vars

(***************************************************************************)
(* Properties                                                              *)
(***************************************************************************)

\* a date "YYYY-MM-DD" as the number YYYYMMDD
DateNumber(date) ==
    DigitsValue(SubSeq(date, 1, 4), 0) * 10000 + DigitsValue(SubSeq(date, 6, 7), 0) * 100
        + DigitsValue(SubSeq(date, 9, 10), 0)

\* C2: for VNIR and SWIR and every calendar date, get_camera_info returns
\* the profile of the bracket the date falls in by calendar order, each
\* bracket taking its first day (2018-08-18, 2019-02-26) and the older one
\* the day before; SWIR before 2019-02-26 has no band count or scan time.
C2_BracketsByDate ==
    (pc = "done" /\ call.fn = "get_camera_info" /\ call.sensor \in {"VNIR", "SWIR"}) =>
        /\ ret.kind = "return"
        /\ LET day == DateNumber(call.data_date)
           IN  ret.val =
                 IF call.sensor = "VNIR"
                 THEN IF day < 20180818 THEN <<"vnir_old", 955, 1024, 540>>
                      ELSE IF day < 20190226 THEN <<"vnir_middle", 939, 1024, 540>>
                      ELSE <<"vnir_new", 939, 3648, 210>>
                 ELSE IF day < 20190226 THEN <<"swir_old_middle", None, None, None>>
                      ELSE <<"swir_new", 275, 512, 210>>

\* C2 witness: the calls on the boundary day 2018-08-18 have returned
C2_BoundaryReached ==
    /\ pc = "done" /\ call.fn = "get_camera_info"
    /\ call.sensor = "VNIR" /\ call.data_date = Date_2018_08_18
    /\ ret.val[1] = "vnir_middle"

\* C6 as claimed: a sensor name other than 'VNIR' and 'SWIR' makes
\* get_camera_info fail, and no profile is returned
C6_UnknownSensorFails ==
    (pc = "done" /\ call.fn = "get_camera_info" /\ call.sensor \notin {"VNIR", "SWIR"}) =>
        ret.kind = "raise"

\* C6 amended: get_camera_info never fails, and for every sensor name other
\* than 'VNIR' it returns what it returns for 'SWIR' on that date
C6_OtherSensorIsSwir ==
    (pc = "done" /\ call.fn = "get_camera_info" /\ call.sensor # "VNIR") =>
        /\ ret.kind = "return"
        /\ ret.val = IF DateNumber(call.data_date) < 20190226
                     THEN <<"swir_old_middle", None, None, None>>
                     ELSE <<"swir_new", 275, 512, 210>>

\* C6 witness: a call with an unknown sensor name has returned a profile
C6_UnknownSensorReturned ==
    /\ pc = "done" /\ call.fn = "get_camera_info"
    /\ call.sensor = "NIR"
    /\ ret.kind = "return" /\ ret.val[1] = "swir_new"

\* HHMMSS, as a number, of second-of-day t
ClockNumber(t) == (t \div 3600) * 10000 + ((t \div 60) % 60) * 100 + (t % 60)

\* C10: for every camera type, irradiance_time_extractor returns as many
\* times and rows as the file has records, row k being the spectrum stored
\* in record k and time k the clock time of record k's stamp.
C10_RowIsOwnRecord ==
    (pc = "done" /\ call.fn = "irradiance_time_extractor" /\ ret.kind = "return") =>
        LET f == call.envlog_file
            own(k) == IF f.layout = "spectrometers" /\ call.camera_type = "swir_new"
                      THEN NirSpectrum(f, k) ELSE FlameSpectrum(f, k)
        IN  /\ Len(ret.val.times) = f.n
            /\ Len(ret.val.spectra) = f.n
            /\ \A k \in 0..(f.n - 1) :
                /\ ret.val.times[k + 1] = ClockNumber(f.start + 5 * k)
                /\ ret.val.spectra[k + 1] = own(k)

NoLogFile(listing) == \A i \in 1..Len(listing) : ~EndsWith(listing[i].name, EnvLogSuffix)

\* C5: perform_process always ends by returning {code, error?}, code 0 or
\* a negative code with a message; no exception leaves it.
C5_AlwaysStructuredResult ==
    (pc = "done" /\ call.fn = "perform_process") =>
        /\ ret.kind = "return"
        /\ ret.code = 0 \/ (ret.code < 0 /\ "error" \in DOMAIN ret)

\* C4: once the folder of a camera that needs calibration is listed and
\* holds no file ending in 'environmentlogger.json', the run is at the
\* matching step or has ended with a negative code and a message, and no
\* mean spectrum, no reflectance and no new netCDF file was ever made.
C4_NoLogFileFails ==
    (call.fn = "perform_process" /\ disk.listing # NoFile /\ NoLogFile(disk.listing[1])) =>
        /\ pc \in {"match", "done"}
        /\ mean_spectrum = <<>>
        /\ rfl_data = <<>>
        /\ disk.newrfl = NoFile
        /\ pc = "done" => (ret.kind = "return" /\ ret.code < 0 /\ "error" \in DOMAIN ret)

\* C4 witness: a run over an empty folder, with a well-formed request
\* stamp, has ended with the calibration failure code
C4_EmptyFolderFailed ==
    /\ pc = "done" /\ call.fn = "perform_process"
    /\ disk.listing = <<(<<>>)>>
    /\ ImageTime(call.timestamp).ok
    /\ ret.kind = "return" /\ ret.code = -1004

\* C9: the matched index is the first one at which |image_time - time[k]|
\* is smallest; in particular the only entry equal to the image time, when
\* there is exactly one, is the one matched.
C9_FirstClosestIndex ==
    (call.fn = "perform_process" /\ pc = "reflectance") =>
        LET image_time == ImageTime(call.timestamp).val
            diff(k) == Abs(image_time - envlog_tot_time[k])
            i == ind_closet_time + 1
        IN  /\ i \in 1..Len(envlog_tot_time)
            /\ \A k \in 1..Len(envlog_tot_time) : diff(i) <= diff(k)
            /\ \A k \in 1..(i - 1) : diff(k) > diff(i)
            /\ \A k \in 1..Len(envlog_tot_time) :
                (/\ envlog_tot_time[k] = image_time
                 /\ \A j \in 1..Len(envlog_tot_time) \ {k} : envlog_tot_time[j] # image_time)
                    => i = k

\* C9 witness: a match was made where a later entry is as close to the
\* image time as the matched one
C9_TieMatched ==
    /\ call.fn = "perform_process" /\ pc = "reflectance"
    /\ \E k \in (ind_closet_time + 2)..Len(envlog_tot_time) :
        Abs(ImageTime(call.timestamp).val - envlog_tot_time[k])
            = Abs(ImageTime(call.timestamp).val - envlog_tot_time[ind_closet_time + 1])

\* C1: the mean spectrum is the average of the rows from the matched index
\* through matched index + window - 1, the last row at most, the window
\* being the camera's scan time (as get_camera_info returns it) over 5,
\* rounded down.
C1_MeanOverScanWindow ==
    [][(call.fn = "perform_process" /\ pc = "match" /\ pc' = "reflectance") =>
        LET window == GetCameraInfo(call.sensor, call.data_date)[4] \div 5
            first == ind_closet_time' + 1
            last == Min(ind_closet_time' + window, Len(envlog_spectra))
        IN  \A b \in 1..Len(mean_spectrum') :
                mean_spectrum'[b][1] * (last - first + 1)
                    = mean_spectrum'[b][2] * ColumnSum(envlog_spectra, b, first, last)]_vars

SameStructure(src, new) ==
    /\ new.atts = src.atts
    /\ Len(new.dimensions) = Len(src.dimensions)
    /\ \A i \in 1..Len(src.dimensions) :
        /\ new.dimensions[i].name = src.dimensions[i].name
        /\ new.dimensions[i].unlimited = src.dimensions[i].unlimited
        /\ ~src.dimensions[i].unlimited => new.dimensions[i].len = src.dimensions[i].len
    /\ "Google_Map_View" \notin VarNames(new)
    /\ Len(new.variables) = Cardinality(VarNames(new))
    /\ \A name \in (VarNames(new) \cap VarNames(src)) \ {"rfl_img"} :
        /\ VarOf(new, name).datatype = VarOf(src, name).datatype
        /\ VarOf(new, name).dimensions = VarOf(src, name).dimensions
        /\ VarOf(new, name).data = VarOf(src, name).data
        /\ VarOf(new, name).fill_value = VarOf(src, name).fill_value
        /\ VarOf(new, name).atts = VarOf(src, name).atts

\* C8 as claimed: a successful update_netcdf leaves the template as it was
\* and writes a new file with the template's global attributes, dimensions
\* and exactly the template's variables minus Google_Map_View, each one
\* other than rfl_img with the template's data, fill value and attributes.
C8_ExactlyTemplateVariables ==
    [][(call.fn = "update_netcdf" /\ pc = "call" /\ pc' = "done" /\ ret'.kind = "return") =>
        /\ disk'.template = disk.template
        /\ disk'.newrfl # NoFile
        /\ SameStructure(disk.template[1], disk'.newrfl[1])
        /\ VarNames(disk'.newrfl[1]) = VarNames(disk.template[1]) \ {"Google_Map_View"}]_vars

\* C8 amended: as claimed, except that the new file's variables are the
\* template's minus Google_Map_View plus rfl_img, which is a new
\* dimensionless f4 variable with no data when the template has none.
C8_TemplateVariablesAndRflImg ==
    [][(call.fn = "update_netcdf" /\ pc = "call" /\ pc' = "done" /\ ret'.kind = "return") =>
        /\ disk'.template = disk.template
        /\ disk'.newrfl # NoFile
        /\ SameStructure(disk.template[1], disk'.newrfl[1])
        /\ VarNames(disk'.newrfl[1])
             = (VarNames(disk.template[1]) \ {"Google_Map_View"}) \cup {"rfl_img"}
        /\ "rfl_img" \notin VarNames(disk.template[1]) =>
             LET added == VarOf(disk'.newrfl[1], "rfl_img")
             IN  /\ added.datatype = "f4" /\ added.dimensions = <<>>
                 /\ added.data = <<>>]_vars

\* C8 witness: update_netcdf has returned for a template that holds
\* Google_Map_View, a variable with a fill value, and no rfl_img; the new
\* file holds the copied variable and an rfl_img
C8_CopiedWithoutRflImg ==
    /\ pc = "done" /\ call.fn = "update_netcdf" /\ ret.kind = "return"
    /\ disk.template # NoFile /\ disk.newrfl # NoFile
    /\ "Google_Map_View" \in VarNames(disk.template[1])
    /\ "rfl_img" \notin VarNames(disk.template[1])
    /\ "rfl_img" \in VarNames(disk.newrfl[1])
    /\ VarOf(disk.newrfl[1], "frametime").fill_value = "NaNf"


\* the seconds since midnight of a clock time written as the number HHMMSS
ElapsedSeconds(hhmmss) ==
    (hhmmss \div 10000) * 3600 + ((hhmmss \div 100) % 100) * 60 + (hhmmss % 100)

\* C11: after a match, no record of the series is strictly closer to the
\* image time, in elapsed seconds (hours*3600 + minutes*60 + seconds), than
\* the record matched, also when the image time and the records lie on
\* opposite sides of a minute or hour boundary.
C11_ClosestInElapsedSeconds ==
    (call.fn = "perform_process" /\ pc = "reflectance") =>
        LET image_time == ElapsedSeconds(ImageTime(call.timestamp).val)
            distance(k) == Abs(image_time - ElapsedSeconds(envlog_tot_time[k]))
        IN  \A k \in 1..Len(envlog_tot_time) : distance(ind_closet_time + 1) <= distance(k)

====
